---- MODULE Spec2Model ----
(***************************************************************************)
(* Model of CodeForge/backend/src/api/routes/run.py: run_code, the worker  *)
(* thread of run_command (target), the caller's watchdog join, the launched*)
(* process tree and the telemetry parser.                                  *)
(*                                                                         *)
(* Texts (stdout, stderr, telemetry tokens) are sequences of one-character *)
(* strings, so that splitlines, split and int are computed as Python      *)
(* computes them.  Exception texts (str(e)) are TLA+ strings.              *)
(* Time is counted in ticks of one second (the unit of `timeout`).         *)
(***************************************************************************)
EXTENDS Integers, Sequences, FiniteSets, TLC

\* ------------------------------------------------------------------ bounds
\* values of run_command's timeout parameter below the default that are explored
MaxTimeout == 2
\* run_command(..., timeout=5, ...): the value run_code always runs with
DefaultTimeout == 5
Timeouts == (1..MaxTimeout) \cup {DefaultTimeout}
\* longest time, in ticks, the worker may need from thread.start() to Popen
SpawnDelay == 1
\* the clock stops here; beyond every deadline of the run
MaxNow == DefaultTimeout + MaxTimeout + SpawnDelay

\* the sandbox's killed-by-signal exit code tested on line 140
KilledBySignal == 137

\* ------------------------------------------------------- text primitives
LF == "\n"
Whitespace == {" ", "\t", "\n"}
Digits == {"0", "1", "2", "3", "4", "5", "6", "7", "8", "9"}

DigitVal(c) ==
    CASE c = "0" -> 0 [] c = "1" -> 1 [] c = "2" -> 2 [] c = "3" -> 3
      [] c = "4" -> 4 [] c = "5" -> 5 [] c = "6" -> 6 [] c = "7" -> 7
      [] c = "8" -> 8 [] c = "9" -> 9

\* str.split(sep) for a one-character separator: every occurrence splits,
\* empty pieces are kept, the result is never empty.
RECURSIVE SplitOn(_, _)
SplitOn(s, sep) ==
    IF \A i \in 1..Len(s) : s[i] # sep
    THEN <<s>>
    ELSE LET k == CHOOSE i \in 1..Len(s) :
                      s[i] = sep /\ \A j \in 1..(i - 1) : s[j] # sep
         IN <<SubSeq(s, 1, k - 1)>> \o SplitOn(SubSeq(s, k + 1, Len(s)), sep)

\* str.splitlines(): pieces between line feeds, no empty last piece when
\* the text ends with a line feed, [] for the empty text.
splitlines(s) ==
    IF s = <<>> THEN <<>>
    ELSE LET p == SplitOn(s, LF)
         IN IF p[Len(p)] = <<>> THEN SubSeq(p, 1, Len(p) - 1) ELSE p

\* "\n".join(lines)
RECURSIVE JoinLF(_)
JoinLF(lines) ==
    IF lines = <<>> THEN <<>>
    ELSE IF Len(lines) = 1 THEN lines[1]
    ELSE lines[1] \o <<LF>> \o JoinLF(Tail(lines))

\* str.split(): maximal runs of non-whitespace characters.
RECURSIVE split(_)
split(s) ==
    IF s = <<>> THEN <<>>
    ELSE IF s[1] \in Whitespace THEN split(Tail(s))
    ELSE LET stop == IF \E i \in 1..Len(s) : s[i] \in Whitespace
                     THEN CHOOSE i \in 1..Len(s) :
                              s[i] \in Whitespace
                              /\ \A j \in 1..(i - 1) : s[j] \notin Whitespace
                     ELSE Len(s) + 1
         IN <<SubSeq(s, 1, stop - 1)>> \o split(SubSeq(s, stop, Len(s)))

\* int(text) succeeds on an optional sign followed by one or more digits.
Unsigned(s) == IF s # <<>> /\ s[1] \in {"+", "-"} THEN Tail(s) ELSE s
IsInt(s) == Unsigned(s) # <<>> /\ \A i \in 1..Len(Unsigned(s)) : Unsigned(s)[i] \in Digits

RECURSIVE NatVal(_)
NatVal(s) == IF s = <<>> THEN 0 ELSE 10 * NatVal(SubSeq(s, 1, Len(s) - 1)) + DigitVal(s[Len(s)])

IntVal(s) == IF s[1] = "-" THEN 0 - NatVal(Unsigned(s)) ELSE NatVal(Unsigned(s))

\* ------------------------------------------------------------ exceptions
\* Exception classes that can be raised in the worker, and str(e) of each.
TimeoutExpired == "TimeoutExpired"
ExceptionKinds ==
    {"OSError", "UnicodeDecodeError", "MemoryError", "ValueError", "IndexError"}

Raise(kind, text) == [ok |-> FALSE, kind |-> kind, text |-> text]
Value(v) == [ok |-> TRUE, val |-> v]

InvalidLiteral == Raise("ValueError", "invalid literal for int() with base 10")
IndexOutOfRange == Raise("IndexError", "list index out of range")
NotEnoughValues == Raise("ValueError", "not enough values to unpack (expected 2)")
TooManyValues == Raise("ValueError", "too many values to unpack (expected 2)")

\* ------------------------------------------------------ time_to_seconds
\* Mutant of SecondsField: the fraction is read as thousandths of a second.
SecondsFieldThousandths(field) ==
    IF \E i \in 1..Len(field) : field[i] = "."
    THEN LET sp == SplitOn(field, ".")
         IN IF Len(sp) > 2 THEN Raise("ValueError", "too many values to unpack (expected 2)")
            ELSE IF ~IsInt(sp[1]) \/ ~IsInt(sp[2])
                 THEN Raise("ValueError", "invalid literal for int() with base 10")
            ELSE Value(100 * IntVal(sp[1]) + (IntVal(sp[2]) \div 10))
    ELSE IF ~IsInt(field) THEN Raise("ValueError", "invalid literal for int() with base 10")
    ELSE Value(100 * IntVal(field))

\* The seconds field parts[1]: "SS.cc" or "SS"; the value is in hundredths
\* of a second (int(secs) + int(msecs) / 100 seconds).
SecondsField(field) ==
    IF \E i \in 1..Len(field) : field[i] = "."
    THEN LET sp == SplitOn(field, ".")
         IN IF Len(sp) > 2 THEN TooManyValues
            ELSE IF ~IsInt(sp[1]) \/ ~IsInt(sp[2]) THEN InvalidLiteral
            ELSE Value(100 * IntVal(sp[1]) + IntVal(sp[2]))
    ELSE IF ~IsInt(field) THEN InvalidLiteral
    ELSE Value(100 * IntVal(field))

\* time_to_seconds(time_str), in hundredths of a second.
time_to_seconds(time_str) ==
    LET parts == SplitOn(time_str, ":")
        three == Len(parts) = 3
        rest  == IF three THEN Tail(parts) ELSE parts
    IN IF three /\ ~IsInt(parts[1]) THEN InvalidLiteral
       ELSE IF ~IsInt(rest[1]) THEN InvalidLiteral
       ELSE IF Len(rest) < 2 THEN IndexOutOfRange
       ELSE LET f == SecondsField(rest[2])
                hours == IF three THEN IntVal(parts[1]) ELSE 0
            IN IF ~f.ok THEN f
               ELSE Value(360000 * hours + 6000 * IntVal(rest[1]) + f.val)

\* round(memory_usage / 1024, 3) in thousandths of a megabyte: the quotient
\* is exact in binary floating point, so ties go to the even neighbour.
RoundMB(kb) ==
    LET q == (kb * 1000) \div 1024
        r == (kb * 1000) % 1024
    IN IF r > 512 \/ (r = 512 /\ q % 2 = 1) THEN q + 1 ELSE q

\* Mutant of SplitStderr: the last line is not cut off the cleaned text
\* (split_stderr instead of split_stderr[:-1]).
SplitStderrKeepsLast(stderr) ==
    LET split_stderr == splitlines(stderr)
    IN IF Len(split_stderr) > 1
       THEN [stderr |-> JoinLF(split_stderr),
             time_output |-> split_stderr[Len(split_stderr)]]
       ELSE [stderr |-> <<>>, time_output |-> stderr]

\* Lines 133-138 of target: split stderr into the cleaned text and the
\* telemetry line, then parse the telemetry line.
SplitStderr(stderr) ==
    LET split_stderr == splitlines(stderr)
    IN IF Len(split_stderr) > 1
       THEN [stderr |-> JoinLF(SubSeq(split_stderr, 1, Len(split_stderr) - 1)),
             time_output |-> split_stderr[Len(split_stderr)]]
       ELSE [stderr |-> <<>>, time_output |-> stderr]

ParseTelemetry(stderr) ==
    LET sp == SplitStderr(stderr)
        toks == split(sp.time_output)
    IN IF Len(toks) < 2 THEN NotEnoughValues
       ELSE IF Len(toks) > 2 THEN TooManyValues
       ELSE LET t == time_to_seconds(toks[1])
            IN IF ~t.ok THEN t
               ELSE IF ~IsInt(toks[2]) THEN InvalidLiteral
               ELSE Value([stderr |-> sp.stderr,
                           elapsed_time |-> t.val,
                           memory_usage |-> RoundMB(IntVal(toks[2]))])

\* ------------------------------------------------------------- data model
\* Optional[...] values: <<>> is Python's None, <<v>> is the value v.
Absent == <<>>
Some(v) == <<v>>

\* class Language
Language == {"py", "js"}
Platforms == {"win32", "linux"}

\* RunResponse(message=""): the defaults of the model's fields.
RunResponse(message) ==
    [stdout |-> <<>>, stderr |-> <<>>, return_code |-> Absent,
     elapsed_time |-> Absent, memory_usage |-> Absent,
     timeout |-> FALSE, test_passed |-> FALSE, message |-> message]

\* write_source_code_to_file: the path of the file it writes
write_source_code_to_file(language) == <<"tempdir", "main", language>>

\* get_command_for_language(file_name, language) on sys.platform
get_command_for_language(file_name, language, platform) ==
    IF platform = "win32"
    THEN IF language = "py" THEN <<"python3.exe", file_name>>
         ELSE IF language = "js" THEN <<"node", file_name>>
         ELSE <<"ValueError">>
    ELSE IF language = "py" THEN <<".venv/Scripts/python3", file_name>>
         ELSE IF language = "js" THEN <<"/bin/node", file_name>>
         ELSE <<"ValueError">>

\* Mutant of Classify: the classifier without the early return of lines
\* 60-61, which overwrites a message left by the worker.
ClassifyOverwrites(r) ==
    IF r.timeout THEN "Time limit exceeded"
    ELSE IF r.return_code # Some(0) THEN "Runtime error"
    ELSE IF r.return_code = Absent THEN "Server error"
    ELSE "Success"

\* Mutant of Classify: the exit code is tested before the timeout flag.
ClassifyExitCodeFirst(r) ==
    IF r.message # "" THEN r.message
    ELSE IF r.return_code # Some(0) THEN "Runtime error"
    ELSE IF r.timeout THEN "Time limit exceeded"
    ELSE "Success"

\* Mutant of Classify: the early return of lines 60-61 tests the exit code
\* instead of the message.
ClassifyWhenExitCode(r) ==
    IF r.return_code = Absent THEN r.message
    ELSE IF r.timeout THEN "Time limit exceeded"
    ELSE IF r.return_code # Some(0) THEN "Runtime error"
    ELSE "Success"

\* Mutant of Classify: a result without exit code is returned as it is.
ClassifyLeavesAbsent(r) ==
    IF r.message # "" THEN r.message
    ELSE IF r.timeout THEN "Time limit exceeded"
    ELSE IF r.return_code = Absent THEN r.message
    ELSE IF r.return_code # Some(0) THEN "Runtime error"
    ELSE "Success"

\* Lines 60-72 of run_code: the message of the result that is returned.
Classify(r) ==
    IF r.message # "" THEN r.message
    ELSE IF r.timeout THEN "Time limit exceeded"
    ELSE IF r.return_code # Some(0) THEN "Runtime error"
    ELSE IF r.return_code = Absent THEN "Server error"
    ELSE "Success"

\* Mutant of ExceptClause: the second clause written as `except OSError`.
ExceptClauseOSErrorOnly(kind) ==
    IF kind = TimeoutExpired THEN "kill"
    ELSE IF kind = "OSError" THEN "except"
    ELSE "done"

\* The except clause of target that takes an exception of class `kind`:
\* "kill" is `except subprocess.TimeoutExpired` (lines 149-151), "except" is
\* `except Exception` (lines 152-154); anything else would end the thread.
ExceptClause(kind) ==
    IF kind = TimeoutExpired THEN "kill"
    ELSE IF kind \in ExceptionKinds THEN "except"
    ELSE "done"

\* ------------------------------------------------------------- the inputs
\* What a program may print, what it may write to its error stream, and the
\* last line the timing wrapper may leave on the error stream.
StdoutTexts == {<<>>, <<"h", "i", LF>>}
ProgStderrTexts == {<<>>, <<"e", LF>>, <<"e">>}
TelemetryLines ==
    { <<>>,
      <<"0", ":", "0", "0", ".", "1", "0", " ", "1", "0", "2", "4", LF>>,
      <<"1", ":", "0", "0", ":", "0", "1", ".", "0", "5", " ", "6", "4", LF>>,
      <<"5", " ", "7", LF>>,
      <<"0", ":", "0", "1", " ", "x", LF>>,
      <<"0", ":", "0", "1", LF>>,
      <<"1", ":", "2", ":", "3", ":", "4", " ", "6", "4", LF>> }
ExitStatuses == {0, 1, KilledBySignal}

\* Failures of the environment: Popen raising (the wrapper cannot be
\* executed) and communicate raising while it writes input or reads output.
SpawnFaults == {Raise("OSError", "[Errno 2] No such file or directory: 'nsjail'")}
CommunicateFaults ==
    {Raise("UnicodeDecodeError", "'utf-8' codec can't decode byte 0xff"),
     Raise("MemoryError", "")}

\* ------------------------------------------------------------------ state
VARIABLES
    pc,                  \* position of the request thread in run_code / run_command
    wpc,                 \* position of the worker thread in target
    now,                 \* wall clock, in seconds
    request,             \* [language, platform, timeout]
    tempdir,             \* "none", "exists", "deleted"
    command,             \* the argv get_command_for_language returned
    result,              \* the RunResponse shared by both threads
    time_limit,          \* --time_limit handed to the sandbox wrapper
    communicate_timeout, \* timeout= of process.communicate
    join_timeout,        \* the argument of thread.join(timeout)
    thread_start,        \* when thread.start() / thread.join(timeout) ran
    process,             \* the launched tree: wrapper, interpreter, returncode
    prog,                \* what the user program does: run_time, status, output
    pipes,               \* what the tree has written to stdout / stderr
    locals,              \* stdout, stderr, elapsed_time, memory_usage of target
    exc                  \* the exception raised in the worker, if any

vars == <<pc, wpc, now, request, tempdir, command, result, time_limit,
          communicate_timeout, join_timeout, thread_start, process, prog,
          pipes, locals, exc>>

NoProcess ==
    [wrapper |-> "none", interp |-> "none", returncode |-> Absent,
     signalled |-> FALSE, start |-> 0]
NoProgram == [run_time |-> Absent, status |-> Absent, stdout |-> <<>>, stderr |-> <<>>]
NoPipes == [stdout |-> <<>>, stderr |-> <<>>]
NoLocals == [stdout |-> <<>>, stderr |-> <<>>, elapsed_time |-> 0, memory_usage |-> 0]

Init ==
    /\ pc = "mkdtemp"
    /\ wpc = "idle"
    /\ now = 0
    /\ request \in [language : Language, platform : Platforms, timeout : Timeouts]
    /\ tempdir = "none"
    /\ command = <<>>
    /\ result = RunResponse("")
    /\ time_limit = Absent
    /\ communicate_timeout = Absent
    /\ join_timeout = Absent
    /\ thread_start = 0
    /\ process = NoProcess
    /\ prog = NoProgram
    /\ pipes = NoPipes
    /\ locals = NoLocals
    /\ exc = Absent

\* ------------------------------------------------- run_code / run_command
\* line 51: tempdir = tempfile.mkdtemp(prefix="codeforge_")
MakeTempdir ==
    /\ pc = "mkdtemp"
    /\ tempdir' = "exists"
    /\ pc' = "write"
    /\ UNCHANGED <<wpc, now, request, command, result, time_limit,
                   communicate_timeout, join_timeout, thread_start, process,
                   prog, pipes, locals, exc>>

\* lines 52-55: write the source file, build the interpreter command
BuildCommand ==
    /\ pc = "write"
    /\ command' = get_command_for_language(
                      write_source_code_to_file(request.language),
                      request.language, request.platform)
    /\ pc' = "run_command"
    /\ UNCHANGED <<wpc, now, request, tempdir, result, time_limit,
                   communicate_timeout, join_timeout, thread_start, process,
                   prog, pipes, locals, exc>>

\* line 52 raises: write_source_code_to_file cannot create or write the
\* file (lines 77-79); the call is made before the try of line 54, so the
\* exception leaves run_code at once
WriteSourceFails ==
    /\ pc = "write"
    /\ pc' = "raised"
    /\ UNCHANGED <<wpc, now, request, tempdir, command, result, time_limit,
                   communicate_timeout, join_timeout, thread_start, process,
                   prog, pipes, locals, exc>>

\* lines 108, 156-158: create the result, start the worker, enter
\* thread.join(timeout)
StartThread ==
    /\ pc = "run_command"
    /\ result' = RunResponse("")
    /\ wpc' = "spawn"
    /\ thread_start' = now
    /\ join_timeout' = Some(request.timeout)
    /\ pc' = "join"
    /\ UNCHANGED <<now, request, tempdir, command, time_limit,
                   communicate_timeout, process, prog, pipes, locals, exc>>

JoinExpired == now >= thread_start + join_timeout[1]

\* line 158: thread.join(timeout) returns when the worker has finished or
\* the timeout has elapsed
JoinReturns ==
    /\ pc = "join"
    /\ wpc = "done" \/ JoinExpired
    /\ pc' = "is_alive"
    /\ UNCHANGED <<wpc, now, request, tempdir, command, result, time_limit,
                   communicate_timeout, join_timeout, thread_start, process,
                   prog, pipes, locals, exc>>

\* line 160: if thread.is_alive()
IsAlive ==
    /\ pc = "is_alive"
    /\ pc' = IF wpc # "done" THEN "set_timeout" ELSE "return"
    /\ UNCHANGED <<wpc, now, request, tempdir, command, result, time_limit,
                   communicate_timeout, join_timeout, thread_start, process,
                   prog, pipes, locals, exc>>

\* line 161: result.timeout = True
CallerSetsTimeout ==
    /\ pc = "set_timeout"
    /\ result' = [result EXCEPT !.timeout = TRUE]
    /\ pc' = "join2"
    /\ UNCHANGED <<wpc, now, request, tempdir, command, time_limit,
                   communicate_timeout, join_timeout, thread_start, process,
                   prog, pipes, locals, exc>>

\* Mutant of SecondJoin: the second join gives up instead of waiting for
\* the worker (a join with a timeout).
SecondJoinGivesUp ==
    /\ pc = "join2"
    /\ pc' = "return"
    /\ UNCHANGED <<wpc, now, request, tempdir, command, result, time_limit,
                   communicate_timeout, join_timeout, thread_start, process,
                   prog, pipes, locals, exc>>

\* line 162: thread.join() without a timeout
SecondJoin ==
    /\ pc = "join2"
    /\ wpc = "done"
    /\ pc' = "return"
    /\ UNCHANGED <<wpc, now, request, tempdir, command, result, time_limit,
                   communicate_timeout, join_timeout, thread_start, process,
                   prog, pipes, locals, exc>>

\* line 164, then lines 57-58: run_command returns, cleanup(tempdir)
ReturnAndCleanup ==
    /\ pc = "return"
    /\ tempdir' = "deleted"
    /\ pc' = "classify"
    /\ UNCHANGED <<wpc, now, request, command, result, time_limit,
                   communicate_timeout, join_timeout, thread_start, process,
                   prog, pipes, locals, exc>>

\* lines 60-72: the classifier; run_code returns the result
ClassifyAndReturn ==
    /\ pc = "classify"
    /\ result' = [result EXCEPT !.message = Classify(result)]
    /\ pc' = "done"
    /\ UNCHANGED <<wpc, now, request, tempdir, command, time_limit,
                   communicate_timeout, join_timeout, thread_start, process,
                   prog, pipes, locals, exc>>

\* ------------------------------------------------------ target (worker)
\* The programs a request may carry: one that exits by itself with a status
\* after run_time seconds, within the time limit, or one that is still
\* running when the limit has elapsed (run_time = Absent).
Programs(limit) ==
    [run_time : {Some(d) : d \in 0..(limit - 1)},
     status : {Some(st) : st \in ExitStatuses},
     stdout : StdoutTexts, stderr : ProgStderrTexts]
    \cup [run_time : {Absent}, status : {Absent},
          stdout : StdoutTexts, stderr : ProgStderrTexts]

\* lines 112-129 raise: Popen cannot execute the wrapper
SpawnFails ==
    /\ wpc = "spawn"
    /\ \E f \in SpawnFaults :
          /\ exc' = Some(f)
          /\ wpc' = ExceptClause(f.kind)
    /\ time_limit' = Some(request.timeout)
    /\ UNCHANGED <<pc, now, request, tempdir, command, result,
                   communicate_timeout, join_timeout, thread_start, process,
                   prog, pipes, locals>>

\* lines 112-131: build nsjail_cmd with --time_limit={timeout}, Popen, and
\* enter process.communicate(input=input_string, timeout=timeout)
Spawn ==
    /\ wpc = "spawn"
    /\ time_limit' = Some(request.timeout)
    /\ \E p \in Programs(request.timeout) : prog' = p
    /\ process' = [wrapper |-> "running", interp |-> "running",
                   returncode |-> Absent, signalled |-> FALSE, start |-> now]
    /\ communicate_timeout' = Some(request.timeout)
    /\ wpc' = "communicate"
    /\ UNCHANGED <<pc, now, request, tempdir, command, result, join_timeout,
                   thread_start, pipes, locals, exc>>

\* Mutant of CommunicateExpired: process.communicate called without timeout=.
CommunicateNeverExpires == FALSE

\* line 131: the timeout of communicate has elapsed
CommunicateExpired ==
    now >= process.start + communicate_timeout[1]

\* line 131: communicate returns the two texts once the process has ended
CommunicateReturns ==
    /\ wpc = "communicate"
    /\ process.wrapper = "exited"
    /\ locals' = [locals EXCEPT !.stdout = pipes.stdout, !.stderr = pipes.stderr]
    /\ wpc' = "parse"
    /\ UNCHANGED <<pc, now, request, tempdir, command, result, time_limit,
                   communicate_timeout, join_timeout, thread_start, process,
                   prog, pipes, exc>>

\* line 131 raises while writing the input or reading the output
CommunicateFails ==
    /\ wpc = "communicate"
    /\ process.wrapper = "exited"
    /\ \E f \in CommunicateFaults :
          /\ exc' = Some(f)
          /\ wpc' = ExceptClause(f.kind)
    /\ UNCHANGED <<pc, now, request, tempdir, command, result, time_limit,
                   communicate_timeout, join_timeout, thread_start, process,
                   prog, pipes, locals>>

\* line 131 raises subprocess.TimeoutExpired
CommunicateTimesOut ==
    /\ wpc = "communicate"
    /\ CommunicateExpired
    /\ exc' = Some(Raise(TimeoutExpired, "timed out"))
    /\ wpc' = ExceptClause(TimeoutExpired)
    /\ UNCHANGED <<pc, now, request, tempdir, command, result, time_limit,
                   communicate_timeout, join_timeout, thread_start, process,
                   prog, pipes, locals>>

\* lines 133-138: split off and parse the telemetry line
Parse ==
    /\ wpc = "parse"
    /\ LET t == ParseTelemetry(locals.stderr)
       IN IF t.ok
          THEN /\ locals' = [locals EXCEPT !.stderr = t.val.stderr,
                                           !.elapsed_time = t.val.elapsed_time,
                                           !.memory_usage = t.val.memory_usage]
               /\ wpc' = "check137"
               /\ exc' = exc
          ELSE /\ exc' = Some(t)
               /\ wpc' = ExceptClause(t.kind)
               /\ locals' = locals
    /\ UNCHANGED <<pc, now, request, tempdir, command, result, time_limit,
                   communicate_timeout, join_timeout, thread_start, process,
                   prog, pipes>>

\* Mutant of CheckKilled: the worker also writes the message of a killed
\* process itself.
CheckKilledSetsMessage ==
    /\ wpc = "check137"
    /\ result' = IF process.returncode = Some(KilledBySignal)
                 THEN [result EXCEPT !.timeout = TRUE,
                                     !.message = "Time limit exceeded"]
                 ELSE result
    /\ wpc' = "store"
    /\ UNCHANGED <<pc, now, request, tempdir, command, time_limit,
                   communicate_timeout, join_timeout, thread_start, process,
                   prog, pipes, locals, exc>>

\* lines 140-141: if process.returncode == 137: result.timeout = True
CheckKilled ==
    /\ wpc = "check137"
    /\ result' = IF process.returncode = Some(KilledBySignal)
                 THEN [result EXCEPT !.timeout = TRUE]
                 ELSE result
    /\ wpc' = "store"
    /\ UNCHANGED <<pc, now, request, tempdir, command, time_limit,
                   communicate_timeout, join_timeout, thread_start, process,
                   prog, pipes, locals, exc>>

\* lines 143-147: copy the outcome into the result; the thread ends
Store ==
    /\ wpc = "store"
    /\ result' = [result EXCEPT !.stdout = locals.stdout,
                                !.stderr = locals.stderr,
                                !.return_code = process.returncode,
                                !.elapsed_time = Some(locals.elapsed_time),
                                !.memory_usage = Some(locals.memory_usage)]
    /\ wpc' = "done"
    /\ UNCHANGED <<pc, now, request, tempdir, command, time_limit,
                   communicate_timeout, join_timeout, thread_start, process,
                   prog, pipes, locals, exc>>

\* line 150: process.kill() signals the top-level process if it has not
\* ended yet
Kill ==
    /\ wpc = "kill"
    /\ process' = IF process.wrapper = "running"
                  THEN [process EXCEPT !.signalled = TRUE]
                  ELSE process
    /\ wpc' = "kill_set"
    /\ UNCHANGED <<pc, now, request, tempdir, command, result, time_limit,
                   communicate_timeout, join_timeout, thread_start, prog,
                   pipes, locals, exc>>

\* line 151: result.timeout = True; the thread ends
WorkerSetsTimeout ==
    /\ wpc = "kill_set"
    /\ result' = [result EXCEPT !.timeout = TRUE]
    /\ wpc' = "done"
    /\ UNCHANGED <<pc, now, request, tempdir, command, time_limit,
                   communicate_timeout, join_timeout, thread_start, process,
                   prog, pipes, locals, exc>>

\* lines 152-154: result.message = str(e); the thread ends
RecordException ==
    /\ wpc = "except"
    /\ result' = [result EXCEPT !.message = exc[1].text]
    /\ wpc' = "done"
    /\ UNCHANGED <<pc, now, request, tempdir, command, time_limit,
                   communicate_timeout, join_timeout, thread_start, process,
                   prog, pipes, locals, exc>>

\* ------------------------------------------------------ the process tree
ProgramDue ==
    /\ process.interp = "running"
    /\ process.wrapper = "running"
    /\ prog.run_time # Absent
    /\ now >= process.start + prog.run_time[1]

\* The program exits by itself: the timing wrapper leaves its last line on
\* stderr and the sandbox wrapper exits with the program's status.
ProgramExits ==
    /\ ProgramDue
    /\ \E line \in TelemetryLines :
          pipes' = [stdout |-> prog.stdout, stderr |-> prog.stderr \o line]
    /\ process' = [process EXCEPT !.wrapper = "exited", !.interp = "exited",
                                  !.returncode = prog.status]
    /\ UNCHANGED <<pc, wpc, now, request, tempdir, command, result, time_limit,
                   communicate_timeout, join_timeout, thread_start, prog,
                   locals, exc>>

\* --time_limit: the sandbox wrapper kills everything inside it, the timing
\* wrapper included, and exits with the killed-by-signal code.
SandboxKills ==
    /\ process.wrapper = "running"
    /\ process.interp = "running"
    /\ now >= process.start + time_limit[1]
    /\ pipes' = [stdout |-> prog.stdout, stderr |-> prog.stderr]
    /\ process' = [process EXCEPT !.wrapper = "exited", !.interp = "exited",
                                  !.returncode = Some(KilledBySignal)]
    /\ UNCHANGED <<pc, wpc, now, request, tempdir, command, result, time_limit,
                   communicate_timeout, join_timeout, thread_start, prog,
                   locals, exc>>

\* The signal of process.kill() ends the top-level process only; whether
\* the interpreter below it ends as well is up to the wrapper.
KillDelivered ==
    /\ process.signalled
    /\ process.wrapper = "running"
    /\ \E survives \in BOOLEAN :
          process' = [process EXCEPT
                         !.wrapper = "exited",
                         !.interp = IF survives THEN @ ELSE "exited",
                         !.returncode = Some(0 - 9)]
    /\ UNCHANGED <<pc, wpc, now, request, tempdir, command, result, time_limit,
                   communicate_timeout, join_timeout, thread_start, prog,
                   pipes, locals, exc>>

\* ------------------------------------------------------------------ time
\* Steps that do not wait take no time; a timer that has expired, a worker
\* that has finished, or a program that is due to exit is acted upon
\* before the clock advances.  Popen may take up to SpawnDelay seconds.
\* The sandbox's own limit and the delivery of a signal have no deadline.
Urgent ==
    \/ pc \in {"mkdtemp", "write", "run_command", "is_alive", "set_timeout",
               "return", "classify"}
    \/ pc = "join" /\ (wpc = "done" \/ JoinExpired)
    \/ pc = "join2" /\ wpc = "done"
    \/ wpc \in {"parse", "check137", "store", "kill", "kill_set", "except"}
    \/ wpc = "spawn" /\ now >= thread_start + SpawnDelay
    \/ wpc = "communicate" /\ (process.wrapper = "exited" \/ CommunicateExpired)
    \/ ProgramDue

Tick ==
    /\ pc # "done"
    /\ now < MaxNow
    /\ ~Urgent
    /\ now' = now + 1
    /\ UNCHANGED <<pc, wpc, request, tempdir, command, result, time_limit,
                   communicate_timeout, join_timeout, thread_start, process,
                   prog, pipes, locals, exc>>

Next ==
    \/ MakeTempdir
    \/ BuildCommand
    \/ WriteSourceFails
    \/ StartThread
    \/ JoinReturns
    \/ IsAlive
    \/ CallerSetsTimeout
    \/ SecondJoin
    \/ ReturnAndCleanup
    \/ ClassifyAndReturn
    \/ SpawnFails
    \/ Spawn
    \/ CommunicateReturns
    \/ CommunicateFails
    \/ CommunicateTimesOut
    \/ Parse
    \/ CheckKilled
    \/ Store
    \/ Kill
    \/ WorkerSetsTimeout
    \/ RecordException
    \/ ProgramExits
    \/ SandboxKills
    \/ KillDelivered
    \/ Tick

Spec == Init /\ [][Next]_vars

\* ================================================================ claims
\* An exception other than TimeoutExpired was raised in the worker.
InternalFailure == exc # Absent /\ exc[1].kind # TimeoutExpired
\* The exception came from Popen or communicate, not from the parser.
EnvironmentFault == exc # Absent /\ exc[1] \in SpawnFaults \cup CommunicateFaults
\* The program ended by itself and the wrapper passed its status on.
ExitedByItself ==
    /\ prog.run_time # Absent
    /\ process.wrapper = "exited"
    /\ process.returncode = prog.status
\* The last line of the error stream parses as telemetry.
WellFormedTelemetry == ParseTelemetry(pipes.stderr).ok
\* run_command has handed its result back to run_code.
Returned == pc \in {"return", "classify", "done"}

\* C1: a result that reaches the classifier with an empty message, timeout
\* false and no return code leaves it with the message "Server error".
C1_AbsentExitCodeIsServerError ==
    [][(pc = "classify" /\ pc' = "done" /\ result.message = ""
          /\ ~result.timeout /\ result.return_code = Absent)
       => result'.message = "Server error"]_vars

C3_HangIsTimeLimitExceeded ==
    (pc = "done" /\ process.wrapper # "none" /\ prog.run_time = Absent
       /\ ~EnvironmentFault)
    => (result.timeout /\ result.message = "Time limit exceeded")

\* C4: run_command returns no later than timeout + SpawnDelay seconds after
\* the worker was started, whatever the process tree does.
C4_BoundedReturn ==
    pc \in {"join", "is_alive", "set_timeout", "join2"}
    => now <= thread_start + request.timeout + SpawnDelay

\* C4 witness: run_command returns while the signalled process is still
\* running.
C4_Witness ==
    /\ pc = "return"
    /\ prog.run_time = Absent
    /\ process.signalled
    /\ process.wrapper = "running"
    /\ now = thread_start + request.timeout + SpawnDelay

\* C5: a process that ended with exit code 137 is returned with timeout set.
C5_KilledBySignalIsTimeout ==
    (pc = "done" /\ process.returncode = Some(KilledBySignal)
       /\ ~EnvironmentFault)
    => result.timeout

\* C6: a program that prints a string and exits 0 within the limit, with
\* well-formed telemetry, is returned with return code 0, "Success" and its
\* stdout.
C6_SuccessfulRun ==
    (pc = "done" /\ ExitedByItself /\ prog.status = Some(0)
       /\ WellFormedTelemetry /\ ~EnvironmentFault)
    => /\ result.return_code = Some(0)
       /\ result.message = "Success"
       /\ result.stdout = prog.stdout

\* C7: a program that exits by itself with a non-zero status within the
\* limit, with well-formed telemetry, is returned with "Runtime error", its
\* status, timeout false and its stdout and stderr.  Status 137, which line
\* 140 reports as a timeout on purpose, is left out of the statement.
C7_RuntimeError ==
    (pc = "done" /\ ExitedByItself
       /\ prog.status \notin {Some(0), Some(KilledBySignal)}
       /\ WellFormedTelemetry /\ ~EnvironmentFault)
    => /\ result.message = "Runtime error"
       /\ result.return_code = prog.status
       /\ ~result.timeout
       /\ result.stdout = prog.stdout
       /\ prog.stderr = IF result.stderr = <<>> /\ prog.stderr = <<>>
                        THEN <<>> ELSE result.stderr \o <<LF>>

\* C8: when run_command returns, an exception raised in the worker has been
\* caught and recorded: TimeoutExpired as the timeout flag, any other as
\* the message, and the worker thread has ended.
C8_ExceptionsRecorded ==
    (pc = "return" /\ exc # Absent)
    => /\ wpc = "done"
       /\ exc[1].kind = TimeoutExpired => result.timeout
       /\ exc[1].kind # TimeoutExpired => result.message = exc[1].text

\* C8 witness: run_command returns after reading the output raised.
C8_Witness ==
    /\ pc = "return"
    /\ exc # Absent
    /\ exc[1].kind = "UnicodeDecodeError"
    /\ result.message # ""

\* C9: the communicate timeout and the join timeout are strictly greater
\* than the time limit handed to the sandbox wrapper.
C9_WatchdogAboveSandboxLimit ==
    /\ (communicate_timeout # Absent /\ time_limit # Absent)
          => communicate_timeout[1] > time_limit[1]
    /\ (join_timeout # Absent /\ time_limit # Absent)
          => join_timeout[1] > time_limit[1]

\* C10: after run_command has returned on a timeout, no process of the
\* launched tree is still running.
C10_TreeTerminatedOnTimeout ==
    (Returned /\ result.timeout /\ process.wrapper # "none")
    => (process.wrapper = "exited" /\ process.interp = "exited")

\* C11: a result that reaches the classifier with an empty message and the
\* timeout flag set gets the message "Time limit exceeded", whatever its
\* exit code is.
C11_TimeoutDominates ==
    [][(pc = "classify" /\ pc' = "done" /\ result.message = ""
          /\ result.timeout)
       => result'.message = "Time limit exceeded"]_vars

\* C11 witness: a result with the timeout flag and a non-zero exit code
\* other than 137 has been classified.
C11_Witness ==
    /\ pc = "done"
    /\ result.timeout
    /\ result.return_code = Some(1)
    /\ result.message = "Time limit exceeded"

\* C12: the classifier changes the message if and only if it was empty when
\* run_command returned, and it changes no other field of the result.
C12_ClassifierKeepsMessage ==
    [][(pc = "classify" /\ pc' = "done")
       => /\ (result'.message # result.message) <=> (result.message = "")
          /\ result' = [result EXCEPT !.message = result'.message]]_vars

\* C12 witness: a message left by the worker is returned with a result
\* whose timeout flag the caller has set.
C12_Witness ==
    /\ pc = "done"
    /\ result.timeout
    /\ InternalFailure
    /\ result.message = exc[1].text
    /\ result.message # ""

\* C16: the request thread writes a field of the result only while the
\* worker thread is not alive (not started yet, or ended).
C16_SingleWriter ==
    [][(pc \in {"run_command", "set_timeout", "classify"} /\ pc' # pc)
       => wpc \in {"idle", "done"}]_vars

C18_TempdirDeleted ==
    (pc \in {"done", "raised"} /\ tempdir # "none") => tempdir = "deleted"

\* C19: once run_command has returned the worker thread has ended, and the
\* temporary directory is deleted only after the worker has ended.
C19_WorkerEndedAtReturn ==
    /\ Returned => wpc = "done"
    /\ tempdir = "deleted" => wpc = "done"

\* C19 witness: run_command returns after the second join, the worker
\* having gone through its timeout handler.
C19_Witness ==
    /\ pc = "return"
    /\ wpc = "done"
    /\ exc # Absent
    /\ exc[1].kind = TimeoutExpired
    /\ now > thread_start + join_timeout[1]

\* C20: every result run_code returns has a non-empty message.
C20_MessageSet == pc = "done" => result.message # ""

\* C20 witness: a result is returned after an exception with an empty text.
C20_Witness ==
    /\ pc = "done"
    /\ exc # Absent
    /\ exc[1].text = ""
    /\ ~result.timeout
    /\ result.return_code = Absent

\* ============================================== the parser on its own
\* The telemetry the timing wrapper writes for "-f %E %M" (line 118):
\* elapsed time as H:MM:SS.cc or M:SS.cc, a space, the memory in kilobytes.
DigitChar(d) ==
    CASE d = 0 -> "0" [] d = 1 -> "1" [] d = 2 -> "2" [] d = 3 -> "3"
      [] d = 4 -> "4" [] d = 5 -> "5" [] d = 6 -> "6" [] d = 7 -> "7"
      [] d = 8 -> "8" [] d = 9 -> "9"

RECURSIVE Decimal(_)
Decimal(n) == IF n < 10 THEN <<DigitChar(n)>>
              ELSE Decimal(n \div 10) \o <<DigitChar(n % 10)>>

TwoDigits(n) == <<DigitChar(n \div 10), DigitChar(n % 10)>>

FormatTime(f) ==
    (IF f.hours = Absent THEN Decimal(f.minutes)
     ELSE Decimal(f.hours[1]) \o <<":">> \o TwoDigits(f.minutes))
    \o <<":">> \o TwoDigits(f.seconds) \o <<".">> \o TwoDigits(f.cc)

FormatLine(f) == FormatTime(f) \o <<" ">> \o Decimal(f.kb)

\* the measurements the parser is run on
TelemetryFields ==
    [hours : {Absent, Some(0), Some(1), Some(12)}, minutes : {0, 7, 59},
     seconds : {0, 2, 59}, cc : {0, 5, 50, 99}, kb : {0, 64, 51200}]

FormattedLines == [f \in TelemetryFields |-> FormatLine(f)]

\* last lines that were not written in that format
OtherLines ==
    TelemetryLines
    \cup { <<"0", ":", "0", "2", ".", "5", "0", " ", "6", "4", " ", "1", LF>>,
           <<"0", ":", "0", "2", ".", "5", "0", "\t", "6", "4", " ", LF>>,
           <<"1", ".", "5", ":", "0", "2", " ", "6", "4", LF>>,
           <<"0", ":", "1", ".", "2", ".", "3", " ", "6", "4", LF>>,
           <<LF>> }

\* what the program itself wrote to stderr before the last line
ParserStderrTexts ==
    ProgStderrTexts \cup {<<"a", LF, "b", LF>>, <<"a", LF, LF>>}

ParserLines ==
    {FormattedLines[f] : f \in TelemetryFields}
    \cup {FormattedLines[f] \o <<LF>> : f \in TelemetryFields}
    \cup OtherLines

\* The state in which communicate has just returned the output of a program
\* that ended at once: the worker is about to parse, the caller waits in
\* thread.join(timeout).
ParserInit ==
    /\ pc = "join"
    /\ wpc = "parse"
    /\ now = 0
    /\ request = [language |-> "py", platform |-> "linux", timeout |-> DefaultTimeout]
    /\ tempdir = "exists"
    /\ command = get_command_for_language(
                     write_source_code_to_file("py"), "py", "linux")
    /\ result = RunResponse("")
    /\ time_limit = Some(DefaultTimeout)
    /\ communicate_timeout = Some(DefaultTimeout)
    /\ join_timeout = Some(DefaultTimeout)
    /\ thread_start = 0
    /\ \E st \in {0, 1}, err \in ParserStderrTexts, line \in ParserLines :
          /\ prog = [run_time |-> Some(0), status |-> Some(st),
                     stdout |-> <<>>, stderr |-> err]
          /\ process = [wrapper |-> "exited", interp |-> "exited",
                        returncode |-> Some(st), signalled |-> FALSE, start |-> 0]
          /\ pipes = [stdout |-> <<>>, stderr |-> err \o line]
          /\ locals = [NoLocals EXCEPT !.stderr = err \o line]
    /\ exc = Absent

ParserNext ==
    \/ Parse
    \/ CheckKilled
    \/ Store
    \/ RecordException
    \/ JoinReturns
    \/ IsAlive
    \/ ReturnAndCleanup
    \/ ClassifyAndReturn

ParserSpec == ParserInit /\ [][ParserNext]_vars

\* The worker has just left lines 133-138.
JustParsed == wpc \in {"check137", "except"}
EndsWithLF(text) == text # <<>> /\ text[Len(text)] = LF
LastLine(text) ==
    LET lines == splitlines(text)
    IN IF lines = <<>> THEN <<>> ELSE lines[Len(lines)]

\* C13: the last line of stderr is what is parsed as telemetry; with more
\* than one line the cleaned stderr is the lines before it joined by line
\* feeds (what the program wrote, less the line feed before the telemetry),
\* with exactly one line it is empty.
C13_TelemetrySplit ==
    (JustParsed /\ splitlines(pipes.stderr) # <<>>)
    => LET lines == splitlines(pipes.stderr)
           alone == ParseTelemetry(lines[Len(lines)])
       IN IF alone.ok
          THEN /\ wpc = "check137"
               /\ locals.elapsed_time = alone.val.elapsed_time
               /\ locals.memory_usage = alone.val.memory_usage
               /\ locals.stderr = IF Len(lines) > 1
                                  THEN JoinLF(SubSeq(lines, 1, Len(lines) - 1))
                                  ELSE <<>>
               /\ EndsWithLF(prog.stderr) => locals.stderr \o <<LF>> = prog.stderr
          ELSE /\ wpc = "except"
               /\ exc = Some(alone)

\* C13 witness: a stderr of three lines has been split.
C13_Witness ==
    /\ wpc = "check137"
    /\ Len(splitlines(pipes.stderr)) = 3
    /\ locals.stderr = <<"a", LF, "b">>

\* C14: a time token H:MM:SS.cc or M:SS.cc is converted to
\* 360000*H + 6000*M + 100*S + cc hundredths of a second.
C14_ElapsedHundredths ==
    (JustParsed /\ (prog.stderr = <<>> \/ EndsWithLF(prog.stderr)))
    => \A f \in TelemetryFields :
          pipes.stderr \in {prog.stderr \o FormattedLines[f],
                            prog.stderr \o FormattedLines[f] \o <<LF>>}
          => /\ wpc = "check137"
             /\ locals.elapsed_time =
                   360000 * (IF f.hours = Absent THEN 0 ELSE f.hours[1])
                   + 6000 * f.minutes + 100 * f.seconds + f.cc

\* C14 witness: the token 12:59:59.05 has been converted.
C14_Witness ==
    /\ wpc = "check137"
    /\ LastLine(pipes.stderr)
         = FormatLine([hours |-> Some(12), minutes |-> 59, seconds |-> 59,
                       cc |-> 5, kb |-> 64])
    /\ locals.elapsed_time = 4679905

\* The format of the telemetry line: exactly two tokens, a time token
\* H:MM:SS.cc or M:SS.cc and an integer.
IsDigits(text, n) == Len(text) = n /\ \A i \in 1..Len(text) : text[i] \in Digits
TimeForm(tok) ==
    LET parts == SplitOn(tok, ":")
        sf == SplitOn(parts[Len(parts)], ".")
    IN /\ Len(parts) \in {2, 3}
       /\ parts[1] # <<>> /\ IsDigits(parts[1], Len(parts[1]))
       /\ Len(parts) = 3 => IsDigits(parts[2], 2)
       /\ Len(sf) = 2 /\ IsDigits(sf[1], 2) /\ IsDigits(sf[2], 2)
TelemetryForm(line) ==
    LET toks == split(line)
    IN Len(toks) = 2 /\ TimeForm(toks[1]) /\ IsInt(toks[2])

\* C15: when the last line of stderr is not in the telemetry format the run
\* is an internal failure: no elapsed time, memory usage or return code is
\* recorded and the message is not "Runtime error".
C15_MalformedRejected ==
    (pc = "done" /\ ~TelemetryForm(LastLine(pipes.stderr)))
    => /\ InternalFailure
       /\ result.elapsed_time = Absent
       /\ result.memory_usage = Absent
       /\ result.return_code = Absent
       /\ result.message # "Runtime error"

====
